---- MODULE Spec2Model ----
(***************************************************************************)
(* Model of selektr (src/src/index.mjs and the older src/unnamed/part_000):*)
(* linear caret offsets over a DOM tree, containment tests and the         *)
(* save / restore of the host selection.                                   *)
(*                                                                         *)
(* The document is a sequence of node records in document (pre-)order;     *)
(* a node is its index in that sequence, 0 is null.  Each record carries   *)
(* the node's tag ("#text" for Text nodes), its depth below the document   *)
(* element and, for Text nodes, the length of its data.                    *)
(***************************************************************************)
EXTENDS Integers, Sequences, FiniteSets, TLC

\* ---------------------------------------------------------------- bounds
MaxNodes == 4
MaxTextLen == 1
MaxSelNodes == 3
MaxArgNodes == 2
MaxColl == 2
MaxMutNodes == 5
MaxMutLen == 2

\* ------------------------------------------------------------- constants
sectionTags == {"P", "H1", "H2", "H3", "H4", "H5", "H6", "LI"}

\* the selector 'UL,OL'
listTags == {"UL", "OL"}

FILTER_ACCEPT == "FILTER_ACCEPT"

FILTER_SKIP == "FILTER_SKIP"

\* tree            the host document
\* sel             the first range of the host selection (NoRange: none)
\* element_        _element, the default element (0: unset)
\* positions_      _positions, the cache of part_000
\* hasContainsNode whether the host selection has a native containsNode
\* call            the exported function called last: arguments and result
\* saved           Positions a caller captured with get
\* mark            the boundaries the selection had when saved was captured,
\*                 carried along with their characters while the caller
\*                 restructures the document
VARIABLES tree, sel, element_, positions_, hasContainsNode, call, saved, mark

vars == <<tree, sel, element_, positions_, hasContainsNode, call, saved, mark>>

\* ------------------------------------------------------- generic helpers
Max(S) == CHOOSE x \in S : \A y \in S : y <= x

Min(S) == CHOOSE x \in S : \A y \in S : x <= y

RECURSIVE SumLen(_, _, _)
SumLen(t, i, j) == IF i > j THEN 0
                   ELSE (IF t[i].tag = "#text" THEN t[i].len ELSE 0) + SumLen(t, i + 1, j)

\* ------------------------------------------------------------ DOM tree
Node(tag, depth, len) == [tag |-> tag, depth |-> depth, len |-> len]

Nodes(t) == 1..Len(t)

nodeType(t, n) == IF t[n].tag = "#text" THEN 3 ELSE 1

nodeName(t, n) == t[n].tag

parentNode(t, n) ==
  LET S == {j \in 1..(n - 1) : t[j].depth < t[n].depth}
  IN IF S = {} THEN 0 ELSE Max(S)

\* last node, in document order, of the subtree of n
lastDescendant(t, n) ==
  Max({j \in n..Len(t) : \A k \in (n + 1)..j : t[k].depth > t[n].depth})

\* node.contains(other): other is n or a descendant of n
nodeContains(t, n, other) == other # 0 /\ n <= other /\ other <= lastDescendant(t, n)

childNodes(t, n) ==
  SelectSeq([k \in 1..Len(t) |-> k], LAMBDA j : j > n /\ parentNode(t, j) = n)

firstChild(t, n) == IF n < Len(t) /\ t[n + 1].depth > t[n].depth THEN n + 1 ELSE 0

lastChild(t, n) ==
  LET c == childNodes(t, n) IN IF Len(c) = 0 THEN 0 ELSE c[Len(c)]

nextSibling(t, n) ==
  LET j == lastDescendant(t, n) + 1
  IN IF j <= Len(t) /\ t[j].depth = t[n].depth THEN j ELSE 0

previousSibling(t, n) ==
  LET S == {j \in 1..(n - 1) : t[j].depth = t[n].depth /\ parentNode(t, j) = parentNode(t, n)}
  IN IF S = {} THEN 0 ELSE Max(S)

\* Array.from(parent.childNodes).indexOf(n), zero based
indexOf(t, n) == Cardinality({j \in 1..(n - 1) : parentNode(t, j) = parentNode(t, n)})

\* node.textContent.length
textLength(t, n) == SumLen(t, n, lastDescendant(t, n))

\* the structural size set() compares an offset with
nodeLength(t, n) == IF nodeType(t, n) = 1 THEN Len(childNodes(t, n)) ELSE textLength(t, n)

is(t, n, tags) == n # 0 /\ nodeType(t, n) = 1 /\ t[n].tag \in tags

isSection(t, n) == nodeType(t, n) = 1 /\ t[n].tag \in sectionTags

\* closest(node, sectionTags): nearest inclusive ancestor that is a section
RECURSIVE closest(_, _, _)
closest(t, n, tags) ==
  IF n = 0 THEN 0
  ELSE IF is(t, n, tags) THEN n
  ELSE closest(t, parentNode(t, n), tags)

\* ------------------------------------------------------ traversal filter
filter(t, node) ==
  IF ~is(t, node, listTags)
     /\ (nodeName(t, node) # "BR"
         \/ (nextSibling(t, node) # 0 /\ ~is(t, nextSibling(t, node), listTags)))
  THEN FILTER_ACCEPT
  ELSE FILTER_SKIP

\* createTreeWalker(root, SHOW_ALL, countAll ? null : filter): a null filter accepts
acceptNode(t, node, countAll) == IF countAll THEN FILTER_ACCEPT ELSE filter(t, node)

\* TreeWalker.nextNode(), the DOM traversal algorithm; the filter never
\* answers FILTER_REJECT, so children of skipped nodes are still walked.
RECURSIVE twNextSibling(_, _, _, _)
RECURSIVE twNextFrom(_, _, _, _)
twNextSibling(t, root, temporary, countAll) ==
  IF temporary = 0 \/ temporary = root THEN 0
  ELSE IF nextSibling(t, temporary) # 0
       THEN LET node == nextSibling(t, temporary)
            IN IF acceptNode(t, node, countAll) = FILTER_ACCEPT THEN node
               ELSE twNextFrom(t, root, node, countAll)
       ELSE twNextSibling(t, root, parentNode(t, temporary), countAll)

\* nextNode that does not walk below a first child the filter skipped
twNextFrom_SkipSubtree(t, root, node, countAll) ==
  IF firstChild(t, node) # 0
  THEN LET c == firstChild(t, node)
       IN IF acceptNode(t, c, countAll) = FILTER_ACCEPT THEN c
          ELSE twNextSibling(t, root, c, countAll)
  ELSE twNextSibling(t, root, node, countAll)

twNextFrom(t, root, node, countAll) ==
  IF firstChild(t, node) # 0
  THEN LET c == firstChild(t, node)
       IN IF acceptNode(t, c, countAll) = FILTER_ACCEPT THEN c
          ELSE twNextFrom(t, root, c, countAll)
  ELSE twNextSibling(t, root, node, countAll)

nextNode(t, root, currentNode, countAll) == twNextFrom(t, root, currentNode, countAll)

\* TreeWalker.previousNode()
RECURSIVE twDeepest(_, _)
twDeepest(t, node) == IF lastChild(t, node) # 0 THEN twDeepest(t, lastChild(t, node)) ELSE node

RECURSIVE twPrevSibling(_, _, _, _)
RECURSIVE twPrevFrom(_, _, _, _)
twPrevSibling(t, root, node, countAll) ==
  IF previousSibling(t, node) # 0
  THEN LET d == twDeepest(t, previousSibling(t, node))
       IN IF acceptNode(t, d, countAll) = FILTER_ACCEPT THEN d
          ELSE twPrevSibling(t, root, d, countAll)
  ELSE IF node = root \/ parentNode(t, node) = 0 THEN 0
       ELSE LET p == parentNode(t, node)
            IN IF acceptNode(t, p, countAll) = FILTER_ACCEPT THEN p
               ELSE twPrevFrom(t, root, p, countAll)

twPrevFrom(t, root, node, countAll) ==
  IF node = root THEN 0 ELSE twPrevSibling(t, root, node, countAll)

previousNode(t, root, currentNode, countAll) == twPrevFrom(t, root, currentNode, countAll)

\* ------------------------------------------------------------- count
\* isStep without the BR test: line breaks are not worth a step
isStep_NoBR(t, root, node, countAll) ==
  node # root /\ (countAll \/ isSection(t, node))

\* isStep without the root test: root counts toward its own offset
isStep_CountsRoot(t, root, node, countAll) ==
  countAll \/ isSection(t, node) \/ nodeName(t, node) = "BR"

\* one step of the loop: is `node` worth a step of its own
isStep(t, root, node, countAll) ==
  node # root /\ (countAll \/ isSection(t, node) \/ nodeName(t, node) = "BR")

RECURSIVE countLoop(_, _, _, _, _, _)
countLoop(t, root, ref, countAll, node, off) ==
  IF node = 0 THEN off
  ELSE LET off1 == IF isStep(t, root, node, countAll) THEN off + 1 ELSE off
           off2 == IF node # ref /\ nodeType(t, node) = 3 THEN off1 + textLength(t, node) ELSE off1
       IN countLoop(t, root, ref, countAll,
                    IF ref # 0 THEN previousNode(t, root, node, countAll)
                    ELSE nextNode(t, root, node, countAll),
                    off2)

\* count(root, ref, countAll); ref = 0 is an absent ref
count(t, root, ref, countAll) ==
  countLoop(t, root, ref, countAll, IF ref # 0 THEN ref ELSE root, 0)

\* ------------------------------------------------------------ uncount
Position(ref, off) == [ref |-> ref, offset |-> off]

\* uncountLoop with `ref = node` moved before the test of a spent budget
RECURSIVE uncountLoop_RefFirst(_, _, _, _, _, _)
uncountLoop_RefFirst(t, root, countAll, currentNode, ref, off) ==
  LET node == nextNode(t, root, currentNode, countAll)
  IN IF node = 0 THEN Position(ref, off)
     ELSE IF (countAll \/ isSection(t, node) \/ nodeName(t, node) = "BR") /\ off = 0
          THEN Position(node, off)
     ELSE LET off1 == IF countAll \/ isSection(t, node) \/ nodeName(t, node) = "BR"
                      THEN off - 1 ELSE off
          IN IF nodeType(t, node) = 3
             THEN IF off1 > textLength(t, node)
                  THEN uncountLoop_RefFirst(t, root, countAll, node, node, off1 - textLength(t, node))
                  ELSE Position(node, off1)
             ELSE uncountLoop_RefFirst(t, root, countAll, node, node, off1)

\* uncountLoop that walks past a Text node without spending its length
RECURSIVE uncountLoop_NoSubtract(_, _, _, _, _, _)
uncountLoop_NoSubtract(t, root, countAll, currentNode, ref, off) ==
  LET node == nextNode(t, root, currentNode, countAll)
  IN IF node = 0 THEN Position(ref, off)
     ELSE IF (countAll \/ isSection(t, node) \/ nodeName(t, node) = "BR") /\ off = 0
          THEN Position(ref, off)
     ELSE LET off1 == IF countAll \/ isSection(t, node) \/ nodeName(t, node) = "BR"
                      THEN off - 1 ELSE off
          IN IF nodeType(t, node) = 3
             THEN IF off1 > textLength(t, node)
                  THEN uncountLoop_NoSubtract(t, root, countAll, node, node, off1)
                  ELSE Position(node, off1)
             ELSE uncountLoop_NoSubtract(t, root, countAll, node, node, off1)

RECURSIVE uncountLoop(_, _, _, _, _, _)
uncountLoop(t, root, countAll, currentNode, ref, off) ==
  LET node == nextNode(t, root, currentNode, countAll)
  IN IF node = 0 THEN Position(ref, off)
     ELSE IF (countAll \/ isSection(t, node) \/ nodeName(t, node) = "BR") /\ off = 0
          THEN Position(ref, off)
     ELSE LET off1 == IF countAll \/ isSection(t, node) \/ nodeName(t, node) = "BR"
                      THEN off - 1 ELSE off
          IN IF nodeType(t, node) = 3
             THEN IF off1 > textLength(t, node)
                  THEN uncountLoop(t, root, countAll, node, node, off1 - textLength(t, node))
                  ELSE Position(node, off1)
             ELSE uncountLoop(t, root, countAll, node, node, off1)

\* the position the walk ends on, before the line-break conversion
uncountWalk(t, root, off, countAll) ==
  IF nodeType(t, root) = 1 THEN uncountLoop(t, root, countAll, root, root, off)
  ELSE Position(root, off)

\* the conversion of a BR to the position before it in its parent
brToParent_Before(t, p) ==
  IF nodeName(t, p.ref) = "BR"
  THEN Position(parentNode(t, p.ref), indexOf(t, p.ref))
  ELSE p

\* a BR is never returned: the position becomes the one after it in its parent
brToParent(t, p) ==
  IF nodeName(t, p.ref) = "BR"
  THEN Position(parentNode(t, p.ref), indexOf(t, p.ref) + 1)
  ELSE p

uncount(t, root, off, countAll) == brToParent(t, uncountWalk(t, root, off, countAll))

\* ------------------------------------------------ host selection, ranges
\* the first range of the host selection; sc = 0 when rangeCount is 0
Range(start, end) ==
  [sc |-> start.ref, so |-> start.offset, ec |-> end.ref, eo |-> end.offset]

NoRange == [sc |-> 0, so |-> 0, ec |-> 0, eo |-> 0]

startOf(r) == Position(r.sc, r.so)

endOf(r) == Position(r.ec, r.eo)

collapsed(r) == r.sc = r.ec /\ r.so = r.eo

\* the child of ancestor `a` on the branch to its descendant `n`
RECURSIVE childToward(_, _, _)
childToward(t, a, n) == IF parentNode(t, n) = a THEN n ELSE childToward(t, a, parentNode(t, n))

\* position of boundary point a relative to b: -1 before, 0 equal, 1 after
cmpOrdered(t, a, b) ==
  \* a.ref precedes b.ref in document order
  IF nodeContains(t, a.ref, b.ref)
  THEN IF indexOf(t, childToward(t, a.ref, b.ref)) < a.offset THEN 1 ELSE -1
  ELSE -1

cmpBP(t, a, b) ==
  IF a.ref = b.ref
  THEN (IF a.offset < b.offset THEN -1 ELSE IF a.offset > b.offset THEN 1 ELSE 0)
  ELSE IF a.ref > b.ref THEN 0 - cmpOrdered(t, b, a)
  ELSE cmpOrdered(t, a, b)

\* document.createRange(); setStart(start); setEnd(end): a boundary set
\* beyond the other one collapses the range onto it
newRange(t, start, end) ==
  IF cmpBP(t, end, start) < 0 THEN Range(end, end) ELSE Range(start, end)

BoundaryPoints(t) ==
  UNION {{Position(n, o) : o \in 0..nodeLength(t, n)} : n \in Nodes(t)}

\* the ranges a host selection can hold: start not after end
ValidRanges(t) ==
  {Range(pr[1], pr[2]) :
     pr \in {q \in BoundaryPoints(t) \X BoundaryPoints(t) : cmpBP(t, q[1], q[2]) <= 0}}

commonAncestorContainer(t, r) ==
  Max({n \in Nodes(t) : nodeContains(t, n, r.sc) /\ nodeContains(t, n, r.ec)})

\* Selection.containsNode(node, allowPartialContainment) of the host
containsNode(t, r, node, allowPartial) ==
  LET parent == parentNode(t, node)
      before == Position(parent, indexOf(t, node))
      after  == Position(parent, indexOf(t, node) + 1)
  IN /\ parent # 0
     /\ \/ /\ allowPartial
           /\ cmpBP(t, before, endOf(r)) < 0
           /\ cmpBP(t, after, startOf(r)) > 0
        \/ /\ cmpBP(t, before, startOf(r)) >= 0
           /\ cmpBP(t, after, endOf(r)) <= 0

\* ------------------------------------------------------------- offset
\* the boundary `caret` of range r; an absent caret reads the end
caretOf(r, caret) == IF caret = "start" THEN startOf(r) ELSE endOf(r)

\* offsetRef that leaves an Element boundary as it is
offsetRef_Raw(t, p) == p

\* an Element boundary with offset > 0 is read as the end of the child before it
offsetRef(t, p) ==
  IF nodeType(t, p.ref) = 1 /\ p.offset > 0
  THEN LET c == childNodes(t, p.ref)[p.offset]
       IN Position(c, textLength(t, c))
  ELSE p

\* offset(element, caret, countAll); element = 0 is an absent element.
\* -1 stands for the TypeError of createTreeWalker(null)
offset(t, r, element, caret, countAll) ==
  LET b  == caretOf(r, caret)
      el == IF element # 0 THEN element ELSE closest(t, b.ref, sectionTags)
      p  == offsetRef(t, b)
  IN IF el = 0 THEN -1 ELSE count(t, el, p.ref, countAll) + p.offset

\* ------------------------------------------------------------ contains
\* containsFallback that takes every ancestor of the common ancestor for
\* contained, whatever the flag
containsFallback_Ancestors(t, r, node, partlyContained) ==
  LET cac     == commonAncestorContainer(t, r)
      element == IF nodeType(t, cac) # 1 THEN parentNode(t, cac) ELSE cac
  IN IF element # node /\ ~nodeContains(t, element, node)
     THEN nodeContains(t, node, element)
     ELSE LET rangeStartOffset == offset(t, r, element, "start", TRUE)
              rangeEndOffset   == offset(t, r, element, "end", TRUE)
              startOffset      == count(t, element, node, TRUE)
              endOffset        == IF nodeType(t, node) = 1
                                  THEN startOffset + count(t, node, 0, TRUE) + 1
                                  ELSE startOffset + textLength(t, node)
          IN \/ (startOffset >= rangeStartOffset /\ endOffset <= rangeEndOffset)
             \/ /\ partlyContained
                /\ \/ (rangeStartOffset >= startOffset /\ rangeStartOffset <= endOffset)
                   \/ (rangeEndOffset >= startOffset /\ rangeEndOffset <= endOffset)

\* the algorithm used when the host selection has no containsNode
containsFallback(t, r, node, partlyContained) ==
  LET cac     == commonAncestorContainer(t, r)
      element == IF nodeType(t, cac) # 1 THEN parentNode(t, cac) ELSE cac
  IN IF element # node /\ ~nodeContains(t, element, node)
     THEN partlyContained /\ nodeContains(t, node, element)
     ELSE LET rangeStartOffset == offset(t, r, element, "start", TRUE)
              rangeEndOffset   == offset(t, r, element, "end", TRUE)
              startOffset      == count(t, element, node, TRUE)
              endOffset        == IF nodeType(t, node) = 1
                                  THEN startOffset + count(t, node, 0, TRUE) + 1
                                  ELSE startOffset + textLength(t, node)
          IN \/ (startOffset >= rangeStartOffset /\ endOffset <= rangeEndOffset)
             \/ /\ partlyContained
                /\ \/ (rangeStartOffset >= startOffset /\ rangeStartOffset <= endOffset)
                   \/ (rangeEndOffset >= startOffset /\ rangeEndOffset <= endOffset)

\* contains(node, partlyContained); native is whether sel.containsNode exists
contains(t, r, native, node, partlyContained) ==
  LET partly == IF nodeType(t, node) = 3 THEN TRUE ELSE partlyContained
  IN IF native THEN containsNode(t, r, node, partly)
     ELSE containsFallback(t, r, node, partly)

\* every() that stops after the first node
containsEvery_FirstOnly(t, r, native, nodes, partlyContained) ==
  nodes = <<>> \/ contains(t, r, native, Head(nodes), partlyContained)

\* Array.from(nodes).every(...) and .some(...)
RECURSIVE containsEvery(_, _, _, _, _)
containsEvery(t, r, native, nodes, partlyContained) ==
  IF nodes = <<>> THEN TRUE
  ELSE IF ~contains(t, r, native, Head(nodes), partlyContained) THEN FALSE
  ELSE containsEvery(t, r, native, Tail(nodes), partlyContained)

RECURSIVE containsSome(_, _, _, _, _)
containsSome(t, r, native, nodes, partlyContained) ==
  IF nodes = <<>> THEN FALSE
  ELSE IF contains(t, r, native, Head(nodes), partlyContained) THEN TRUE
  ELSE containsSome(t, r, native, Tail(nodes), partlyContained)

\* ------------------------------------------------------------- get
\* document.body: the top element of the document
body == 1

\* get that falls back on document.body, whatever _element is
get_BodyDefault(t, r, el, caret, element, countAll) ==
  LET e == IF element # 0 THEN element ELSE body
  IN Position(e, offset(t, r, e, caret, countAll))

\* get(caret, element, countAll) with caret "start" or "end" and element not
\* `true`; element = 0 is an absent element, el the module's default element
get(t, r, el, caret, element, countAll) ==
  LET e == IF element # 0 THEN element ELSE IF el # 0 THEN el ELSE body
  IN Position(e, offset(t, r, e, caret, countAll))

\* get(element, countAll): both carets, the start taken from the end when collapsed
getPositions(t, r, el, element, countAll) ==
  LET end == get(t, r, el, "end", element, countAll)
  IN [end |-> end,
      start |-> IF collapsed(r) THEN end ELSE get(t, r, el, "start", element, countAll)]

\* ----------------------------------------------------------- contained
\* descendants(element, { selector }): the elements below element that
\* match, in document order
descendants(t, element, tags) ==
  SelectSeq([k \in 1..Len(t) |-> k],
            LAMBDA j : j > element /\ j <= lastDescendant(t, element) /\ is(t, j, tags))

\* contained({ element, sections: true }, partlyContained); element = 0 is
\* an absent opts.element, el the module's default element
contained(t, r, native, el, element, partlyContained) ==
  LET e == IF element # 0 THEN element ELSE IF el # 0 THEN el ELSE body
  IN SelectSeq(descendants(t, e, sectionTags),
               LAMBDA node : contains(t, r, native, node, partlyContained))

\* ------------------------------------------- get and its arguments
\* a JavaScript value handed to get: undefined, true, false, a number
\* other than 0, a string, or an Element of the document
Arg(kind, str, node) == [kind |-> kind, str |-> str, node |-> node]

Undefined == Arg("undefined", "", 0)

Bool(b) == Arg(IF b THEN "true" ELSE "false", "", 0)

Num == Arg("number", "", 0)

Str(str) == Arg("string", str, 0)

NodeArg(n) == Arg("node", "", n)

truthy(a) == a.kind \in {"true", "number", "node"} \/ (a.kind = "string" /\ a.str # "")

\* what get returns, or the error it raises
Got(start, end, err) == [start |-> start, end |-> end, err |-> err]

Raised(err) == Got(Position(0, 0), Position(0, 0), err)

\* get(caret, element, countAll) for caret "start" or "end": element === true
\* gives the raw boundary; a falsy element gives way to _element and
\* document.body; without a range rng[...] is a TypeError and getRangeAt(0)
\* an IndexSizeError; createTreeWalker of a value that is no node is a TypeError
getCaret(t, r, el, caret, element, countAll) ==
  IF element.kind = "true"
  THEN IF r = NoRange THEN Raised("TypeError")
       ELSE Got(caretOf(r, caret), caretOf(r, caret), "")
  ELSE IF r = NoRange THEN Raised("IndexSizeError")
  ELSE IF truthy(element) /\ element.kind # "node" THEN Raised("TypeError")
  ELSE LET p == get(t, r, el, caret, IF truthy(element) THEN element.node ELSE 0, countAll)
       IN Got(p, p, "")

\* getArgs that takes every string for a caret
getArgs_AnyString(t, r, el, a1, a2, a3) ==
  getCaret(t, r, el, IF a1.str = "start" THEN "start" ELSE "end",
           IF a1.kind = "string" THEN a2 ELSE a1, truthy(a3))

\* getArgs that copies the end caret into start whatever the range is
getArgs_EndOnly(t, r, el, a1, a2, a3) ==
  IF a1.kind # "string" THEN getCaret(t, r, el, "end", a1, truthy(a2))
  ELSE IF a1.str \notin {"start", "end"} THEN Raised("invalid-argument")
  ELSE getCaret(t, r, el, a1.str, a2, truthy(a3))

\* get(a1, a2, a3) as it is called: a first argument that is no string is
\* the element, and the second one is then countAll
getArgs(t, r, el, a1, a2, a3) ==
  IF a1.kind # "string"
  THEN LET end == getCaret(t, r, el, "end", a1, truthy(a2))
       IN IF end.err # "" THEN end
          ELSE IF collapsed(r) THEN end
          ELSE LET start == getCaret(t, r, el, "start", a1, truthy(a2))
               IN Got(start.start, end.end, start.err)
  ELSE IF a1.str \notin {"start", "end"} THEN Raised("invalid-argument")
  ELSE getCaret(t, r, el, a1.str, a2, truthy(a3))

\* ------------------------------------------------------------- set
\* the bounds check with >= for >: an offset at the end of ref is refused
outOfBounds_Geq(t, p) ==
  \/ (nodeType(t, p.ref) = 1 /\ p.offset >= Len(childNodes(t, p.ref)))
  \/ (nodeType(t, p.ref) # 1 /\ p.offset >= textLength(t, p.ref))

\* the bounds check of set: an offset beyond the structural size of ref
outOfBounds(t, p) ==
  \/ (nodeType(t, p.ref) = 1 /\ p.offset > Len(childNodes(t, p.ref)))
  \/ (nodeType(t, p.ref) # 1 /\ p.offset > textLength(t, p.ref))

\* the tail of set: bounds check, createRange, setStart, setEnd, addRange
installRange(t, r, start, end) ==
  IF outOfBounds(t, start) \/ outOfBounds(t, end) THEN r
  ELSE newRange(t, start, end)

\* set that installs the positions it is given, never resolving them
set_Raw(t, r, positions, shouldUncount) ==
  installRange(t, r, positions.start, positions.end)

\* set(positions, shouldUncount) of index.mjs
set(t, r, positions, shouldUncount) ==
  LET start == IF shouldUncount = FALSE THEN positions.start
               ELSE uncount(t, positions.start.ref, positions.start.offset, FALSE)
      end   == IF positions.end # positions.start
               THEN (IF shouldUncount = FALSE THEN positions.end
                     ELSE uncount(t, positions.end.ref, positions.end.offset, FALSE))
               ELSE start
  IN installRange(t, r, start, end)

\* set(positions) of part_000: no uncount
set_part000(t, r, positions) == installRange(t, r, positions.start, positions.end)

\* restore(positions) of part_000
restore(t, r, positions) ==
  LET start == uncount(t, positions.start.ref, positions.start.offset, FALSE)
      end   == IF positions.end # positions.start
               THEN uncount(t, positions.end.ref, positions.end.offset, FALSE)
               ELSE start
  IN set_part000(t, r, [start |-> start, end |-> end])

\* -------------------------------------------------- isAtStartOfSection
\* the answer of a query and the error it raises
Answer(res, err) == [res |-> res, err |-> err]

\* isAtStartOfSection reading the end caret
isAtStartOfSection_End(t, r, section) ==
  LET s == IF section # 0 THEN section ELSE closest(t, r.ec, sectionTags)
  IN IF s = 0 THEN Answer(FALSE, "TypeError")
     ELSE Answer(offset(t, r, s, "end", FALSE) = 0, "")

\* isAtStartOfSection(section); section = 0 is an absent section.  Without
\* a section around the start container, createTreeWalker(null) is a TypeError
isAtStartOfSection(t, r, section) ==
  LET s == IF section # 0 THEN section ELSE closest(t, r.sc, sectionTags)
  IN IF s = 0 THEN Answer(FALSE, "TypeError")
     ELSE Answer(offset(t, r, s, "start", FALSE) = 0, "")

\* ---------------------------------------------------- isAtEndOfSection
\* children(section, 'UL,OL'): the child elements of section that match
children(t, section, tags) ==
  SelectSeq(childNodes(t, section), LAMBDA j : is(t, j, tags))

\* isAtEndOfSection(section); section = 0 is an absent section
isAtEndOfSection(t, r, section) ==
  LET endContainer == r.ec
      s == IF section # 0 THEN section ELSE closest(t, endContainer, sectionTags)
  IN IF section # 0 /\ section # endContainer /\ ~nodeContains(t, section, endContainer)
     THEN Answer(FALSE, "")
     ELSE IF s = 0 THEN Answer(FALSE, "TypeError")
     ELSE LET off        == offset(t, r, s, "end", FALSE)
              nestedList == children(t, s, listTags)
              result     == IF Len(nestedList) > 0 THEN count(t, s, nestedList[1], FALSE)
                            ELSE count(t, s, 0, FALSE)
          IN Answer(off = result, "")

\* -------------------------------------------------------------- select
\* descendants(node, { nodeType: 3 }): the Text nodes below node, in document order
textDescendants(t, node) ==
  SelectSeq([k \in 1..Len(t) |-> k],
            LAMBDA j : j > node /\ j <= lastDescendant(t, node) /\ nodeType(t, j) = 3)

\* the positions select hands to set
selectPositions(t, node) ==
  LET textNodes == IF nodeType(t, node) = 3 THEN <<node>> ELSE textDescendants(t, node)
  IN IF Len(textNodes) = 0
     THEN [start |-> Position(node, 0), end |-> Position(node, 0)]
     ELSE [start |-> Position(textNodes[1], 0),
           end   |-> Position(textNodes[Len(textNodes)],
                              textLength(t, textNodes[Len(textNodes)]))]

\* select(node) of index.mjs: set is called without shouldUncount
select(t, r, node) == set(t, r, selectPositions(t, node), TRUE)

\* ---------------------------------------------------------- normalize
\* while (!ref.previousSibling) ref = ref.parentNode; 0 when the walk leaves the tree
RECURSIVE climbToSibling(_, _)
climbToSibling(t, ref) ==
  IF ref = 0 THEN 0
  ELSE IF previousSibling(t, ref) # 0 THEN ref
  ELSE climbToSibling(t, parentNode(t, ref))

Outcome(r, err) == [sel |-> r, err |-> err]

\* normalize() of index.mjs: the selection it leaves and the error it raises
normalize(t, r, el) ==
  IF ~collapsed(r)
  THEN IF is(t, r.ec, sectionTags) /\ r.eo = 0
       THEN LET ref == climbToSibling(t, r.ec)
            IN IF ref = 0 THEN Outcome(r, "TypeError")
               ELSE LET prev    == previousSibling(t, ref)
                        section == closest(t, r.sc, sectionTags)
                    IN Outcome(set(t, r, [start |-> get(t, r, el, "start", section, FALSE),
                                          end   |-> Position(prev, count(t, prev, 0, FALSE))],
                                   TRUE), "")
       ELSE Outcome(r, "")
  ELSE IF nodeType(t, r.ec) = 3 /\ r.eo = 0
       THEN LET section == closest(t, r.ec, sectionTags)
                p       == get(t, r, el, "end", section, FALSE)
            IN Outcome(set(t, r, [start |-> p, end |-> p], TRUE), "")
       ELSE Outcome(r, "")

\* ------------------------------------------------------- host document
\* tags the host gives to the nodes it creates (one section tag, one list
\* tag and one inline tag stand for their kind)
ElementTags == {"P", "UL", "BR", "SPAN"}

NewNodes(depth) ==
  {Node(tag, depth, 0) : tag \in ElementTags} \cup {Node("#text", depth, l) : l \in 0..MaxTextLen}

\* nodes that may be given children
canHaveChildren(t, n) == nodeType(t, n) = 1 /\ nodeName(t, n) # "BR"

P(d) == Node("P", d, 0)

Text(d, l) == Node("#text", d, l)

\* an empty editor element, and the spec's example document:
\* paragraph "AB" followed by paragraph "CD"
EmptyDoc == <<Node("DIV", 0, 0)>>

TwoParagraphs == <<Node("DIV", 0, 0), P(1), Text(2, 2), P(1), Text(2, 2)>>

SeedTrees == {EmptyDoc, TwoParagraphs}

NoPositions == [start |-> Position(0, 0), end |-> Position(0, 0)]

\* the last call made and what it returned
NoCall == [op |-> "none", root |-> 0, ref |-> 0, off |-> 0, countAll |-> FALSE,
           num |-> 0, pos |-> Position(0, 0), nodes |-> <<>>, partly |-> FALSE,
           res |-> FALSE, err |-> "", start |-> Position(0, 0), end |-> Position(0, 0),
           args |-> <<>>]

\* the host appends a new last child to an element on the rightmost
\* branch, while the document has at most `max` nodes
appendChild(max) ==
  /\ call = NoCall
  /\ sel = NoRange
  /\ Len(tree) < max
  /\ \E p \in Nodes(tree) :
       /\ lastDescendant(tree, p) = Len(tree)
       /\ canHaveChildren(tree, p)
       /\ \E nd \in NewNodes(tree[p].depth + 1) : tree' = Append(tree, nd)
  /\ UNCHANGED <<sel, element_, positions_, hasContainsNode, call, saved, mark>>

AppendChild == appendChild(MaxNodes)

\* ------------------------------------------- specification of count/uncount
Roots(t) == {n \in Nodes(t) : nodeType(t, n) = 1}

Count ==
  /\ call = NoCall
  /\ \E root \in Roots(tree), ref \in 0..Len(tree), countAll \in BOOLEAN :
       /\ ref = 0 \/ nodeContains(tree, root, ref)
       /\ call' = [NoCall EXCEPT !.op = "count", !.root = root, !.ref = ref,
                                 !.countAll = countAll,
                                 !.num = count(tree, root, ref, countAll)]
  /\ UNCHANGED <<tree, sel, element_, positions_, hasContainsNode, saved, mark>>

Uncount ==
  /\ call = NoCall
  /\ \E root \in Roots(tree), countAll \in BOOLEAN :
       \E off \in 0..count(tree, root, 0, countAll) :
         call' = [NoCall EXCEPT !.op = "uncount", !.root = root, !.off = off,
                                !.countAll = countAll,
                                !.pos = uncount(tree, root, off, countAll)]
  /\ UNCHANGED <<tree, sel, element_, positions_, hasContainsNode, saved, mark>>

\* the caller takes the result of the last call
Return ==
  /\ call # NoCall
  /\ call' = NoCall
  /\ UNCHANGED <<tree, sel, element_, positions_, hasContainsNode, saved, mark>>

InitCount ==
  /\ tree \in SeedTrees
  /\ sel = NoRange
  /\ element_ = 0
  /\ positions_ = NoPositions
  /\ hasContainsNode = FALSE
  /\ call = NoCall
  /\ saved = NoPositions
  /\ mark = NoPositions

NextCount == AppendChild \/ Count \/ Uncount \/ Return

SpecCount == InitCount /\ [][NextCount]_vars

\* ----------------------------------------------- specification of set
\* documents the selection operations start from
Br(d) == Node("BR", d, 0)

Span(d) == Node("SPAN", d, 0)

Ul(d) == Node("UL", d, 0)

\* paragraph "A" <br> "B" and a second paragraph
BreakDoc == <<Node("DIV", 0, 0), P(1), Text(2, 1), Br(2), Text(2, 1), P(1)>>

SelSeedTrees == {EmptyDoc, TwoParagraphs, BreakDoc}

HostAppendChild == appendChild(MaxSelNodes)

\* the documents set and restore are tried on are smaller: every pair of
\* positions is tried on each
SetAppendChild == appendChild(MaxArgNodes)

\* positions a caller may hand to set: any node, offsets up to one past its size
RawPositions(t) ==
  UNION {{Position(n, o) : o \in 0..(nodeLength(t, n) + 1)} : n \in Nodes(t)}

\* {ref, linear offset} pairs a caller may hand to set or restore
LinearPositions(t) ==
  UNION {{Position(n, o) : o \in 0..(count(t, n, 0, FALSE) + 1)} : n \in Nodes(t)}

Called(op) == [NoCall EXCEPT !.op = op]

CalledWith(op, start, end) == [NoCall EXCEPT !.op = op, !.start = start, !.end = end]

\* set(positions, false)
SetRaw ==
  /\ call = NoCall
  /\ \E start \in RawPositions(tree), end \in RawPositions(tree) :
       /\ sel' = set(tree, sel, [start |-> start, end |-> end], FALSE)
       /\ call' = CalledWith("set", start, end)
  /\ UNCHANGED <<tree, element_, positions_, hasContainsNode, saved, mark>>

\* set(positions) of part_000
SetPart000 ==
  /\ call = NoCall
  /\ \E start \in RawPositions(tree), end \in RawPositions(tree) :
       /\ sel' = set_part000(tree, sel, [start |-> start, end |-> end])
       /\ call' = CalledWith("set_part000", start, end)
  /\ UNCHANGED <<tree, element_, positions_, hasContainsNode, saved, mark>>

\* set(positions): both boundaries resolved with uncount
Set ==
  /\ call = NoCall
  /\ \E start \in LinearPositions(tree), end \in LinearPositions(tree) :
       /\ sel' = set(tree, sel, [start |-> start, end |-> end], TRUE)
       /\ call' = CalledWith("setLinear", start, end)
  /\ UNCHANGED <<tree, element_, positions_, hasContainsNode, saved, mark>>

\* restore(positions) of part_000
Restore ==
  /\ call = NoCall
  /\ \E start \in LinearPositions(tree), end \in LinearPositions(tree) :
       /\ sel' = restore(tree, sel, [start |-> start, end |-> end])
       /\ call' = CalledWith("restore", start, end)
  /\ UNCHANGED <<tree, element_, positions_, hasContainsNode, saved, mark>>

\* select(node)
Select ==
  /\ call = NoCall
  /\ \E node \in Nodes(tree) :
       /\ sel' = select(tree, sel, node)
       /\ call' = [NoCall EXCEPT !.op = "select", !.ref = node]
  /\ UNCHANGED <<tree, element_, positions_, hasContainsNode, saved, mark>>

InitSet ==
  /\ tree \in SelSeedTrees
  /\ sel = NoRange
  /\ element_ = 0
  /\ positions_ = NoPositions
  /\ hasContainsNode = FALSE
  /\ call = NoCall
  /\ saved = NoPositions
  /\ mark = NoPositions

NextSet == SetAppendChild \/ SetRaw \/ SetPart000 \/ Set \/ Restore \/ Select \/ Return

SpecSet == InitSet /\ [][NextSet]_vars

\* ------------------------------------------ specification of contains
\* paragraph with an inline element between two Text nodes: "A" <span>"AB"</span> "B"
InlineDoc == <<Node("DIV", 0, 0), P(1), Text(2, 1), Span(2), Text(3, 2), Text(2, 1)>>

ContainsSeedTrees == {EmptyDoc, TwoParagraphs, InlineDoc}

\* the user (or the host) makes a selection in a document that had none
UserSelect ==
  /\ call = NoCall
  /\ sel = NoRange
  /\ sel' \in ValidRanges(tree)
  /\ UNCHANGED <<tree, element_, positions_, hasContainsNode, call, saved, mark>>

\* node collections handed to containsEvery / containsSome: at most MaxColl
\* nodes, in document order
RECURSIVE SeqOfSet(_)
SeqOfSet(S) == IF S = {} THEN <<>> ELSE <<Min(S)>> \o SeqOfSet(S \ {Min(S)})

Collections(t) == {SeqOfSet(S) : S \in {X \in SUBSET Nodes(t) : Cardinality(X) <= MaxColl}}

Contains ==
  /\ call = NoCall
  /\ sel # NoRange
  /\ \E node \in Nodes(tree), partly \in BOOLEAN :
       call' = [NoCall EXCEPT !.op = "contains", !.ref = node, !.partly = partly,
                              !.res = contains(tree, sel, hasContainsNode, node, partly)]
  /\ UNCHANGED <<tree, sel, element_, positions_, hasContainsNode, saved, mark>>

ContainsEvery ==
  /\ call = NoCall
  /\ sel # NoRange
  /\ \E nodes \in Collections(tree), partly \in BOOLEAN :
       call' = [NoCall EXCEPT !.op = "containsEvery", !.nodes = nodes, !.partly = partly,
                              !.res = containsEvery(tree, sel, hasContainsNode, nodes, partly)]
  /\ UNCHANGED <<tree, sel, element_, positions_, hasContainsNode, saved, mark>>

ContainsSome ==
  /\ call = NoCall
  /\ sel # NoRange
  /\ \E nodes \in Collections(tree), partly \in BOOLEAN :
       call' = [NoCall EXCEPT !.op = "containsSome", !.nodes = nodes, !.partly = partly,
                              !.res = containsSome(tree, sel, hasContainsNode, nodes, partly)]
  /\ UNCHANGED <<tree, sel, element_, positions_, hasContainsNode, saved, mark>>

InitContains ==
  /\ tree \in ContainsSeedTrees
  /\ sel = NoRange
  /\ element_ = 0
  /\ positions_ = NoPositions
  /\ hasContainsNode \in BOOLEAN
  /\ call = NoCall
  /\ saved = NoPositions
  /\ mark = NoPositions

NextContains ==
  SetAppendChild \/ UserSelect \/ Contains \/ ContainsEvery \/ ContainsSome \/ Return

SpecContains == InitContains /\ [][NextContains]_vars

\* ----------------------------------------- specification of normalize
\* a paragraph followed by two empty paragraphs
EmptySections == <<Node("DIV", 0, 0), P(1), Text(2, 1), P(1), P(1)>>

\* paragraph "A" <br> followed by an empty paragraph
BreakThenSection == <<Node("DIV", 0, 0), P(1), Text(2, 1), Br(2), P(1)>>

NormalizeSeedTrees == {EmptyDoc, TwoParagraphs, EmptySections, BreakThenSection}

\* normalize(); without a range, rng.collapsed is a TypeError
Normalize ==
  /\ call = NoCall
  /\ LET out == IF sel = NoRange THEN Outcome(sel, "TypeError")
                ELSE normalize(tree, sel, element_)
     IN /\ sel' = out.sel
        /\ call' = [NoCall EXCEPT !.op = "normalize", !.err = out.err]
  /\ UNCHANGED <<tree, element_, positions_, hasContainsNode, saved, mark>>

InitNormalize ==
  /\ tree \in NormalizeSeedTrees
  /\ sel = NoRange
  /\ element_ = 0
  /\ positions_ = NoPositions
  /\ hasContainsNode = TRUE
  /\ call = NoCall
  /\ saved = NoPositions
  /\ mark = NoPositions

NextNormalize == HostAppendChild \/ UserSelect \/ Normalize \/ Return

SpecNormalize == InitNormalize /\ [][NextNormalize]_vars

\* ------------------------------- specification of save, mutate, restore
\* one paragraph "A" <br> "B", and a line break before a list
LineBreakDoc == <<Node("DIV", 0, 0), P(1), Text(2, 1), Br(2), Text(2, 1)>>

ListDoc == <<Node("DIV", 0, 0), Br(1), Ul(1), Node("LI", 2, 0), Text(3, 1)>>

MutateSeedTrees == {TwoParagraphs, LineBreakDoc, ListDoc}

InsertAt(t, i, nd) == SubSeq(t, 1, i - 1) \o <<nd>> \o SubSeq(t, i, Len(t))

RemoveAt(t, i) == SubSeq(t, 1, i - 1) \o SubSeq(t, i + 1, Len(t))

\* a node reference after `by` nodes were inserted (or removed) at index `from`
Shifted(n, from, by) == IF n >= from THEN n + by ELSE n

shiftPosition(p, from, by) == Position(Shifted(p.ref, from, by), p.offset)

shiftPositions(ps, from, by) ==
  [start |-> shiftPosition(ps.start, from, by), end |-> shiftPosition(ps.end, from, by)]

\* the element the positions were captured against
SavedElement == saved.start.ref

\* what the host selection is after the caller restructured the document:
\* dropped, or still on the characters it was on
AfterMutation(m) == {NoRange, Range(m.start, m.end)}

\* the user selects with both boundaries in Text nodes
UserSelectText ==
  /\ call = NoCall
  /\ sel = NoRange
  /\ sel' \in {r \in ValidRanges(tree) : nodeType(tree, r.sc) = 3 /\ nodeType(tree, r.ec) = 3}
  /\ UNCHANGED <<tree, element_, positions_, hasContainsNode, call, saved, mark>>

\* positions = get(E) for an element E holding both boundaries
Save ==
  /\ call = NoCall
  /\ sel # NoRange
  /\ \E E \in Nodes(tree) :
       /\ nodeType(tree, E) = 1
       /\ nodeContains(tree, E, sel.sc)
       /\ nodeContains(tree, E, sel.ec)
       /\ saved' = getPositions(tree, sel, element_, E, FALSE)
       /\ call' = [NoCall EXCEPT !.op = "get", !.root = E]
  /\ mark' = [start |-> startOf(sel), end |-> endOf(sel)]
  /\ UNCHANGED <<tree, sel, element_, positions_, hasContainsNode>>

Mutating == call.op = "get"

UnderSaved(n) == n # SavedElement /\ nodeContains(tree, SavedElement, n)

\* the caller's mutation gave the document the tree t and moved the
\* captured boundaries to m and the element to e
Mutated(t, m, e) ==
  /\ tree' = t
  /\ mark' = m
  /\ saved' = [start |-> Position(e, saved.start.offset), end |-> Position(e, saved.end.offset)]
  /\ call' = [call EXCEPT !.root = e]
  /\ sel' \in AfterMutation(m)
  /\ UNCHANGED <<element_, positions_, hasContainsNode>>

\* a Text node is wrapped in an inline element
WrapText ==
  /\ Mutating
  /\ Len(tree) < MaxMutNodes
  /\ \E n \in Nodes(tree) :
       /\ nodeType(tree, n) = 3
       /\ UnderSaved(n)
       /\ Mutated(InsertAt([tree EXCEPT ![n].depth = @ + 1], n, Span(tree[n].depth)),
                  shiftPositions(mark, n, 1), SavedElement)

\* an inline element holding only Text nodes is replaced by its children
UnwrapText ==
  /\ Mutating
  /\ \E s \in Nodes(tree) :
       /\ nodeName(tree, s) = "SPAN"
       /\ UnderSaved(s)
       /\ \A k \in (s + 1)..lastDescendant(tree, s) : nodeType(tree, k) = 3
       /\ Mutated(RemoveAt([k \in 1..Len(tree) |->
                              IF k > s /\ k <= lastDescendant(tree, s)
                              THEN [tree[k] EXCEPT !.depth = @ - 1] ELSE tree[k]], s),
                  shiftPositions(mark, s, -1), SavedElement)

\* the position p after Text node n was split at character k
splitPosition(p, n, k) ==
  IF p.ref = n /\ p.offset > k THEN Position(n + 1, p.offset - k)
  ELSE shiftPosition(p, n + 1, 1)

\* Text.splitText
SplitText ==
  /\ Mutating
  /\ Len(tree) < MaxMutNodes
  /\ \E n \in Nodes(tree) :
       /\ nodeType(tree, n) = 3
       /\ UnderSaved(n)
       /\ \E k \in 0..tree[n].len :
            Mutated(InsertAt([tree EXCEPT ![n].len = k], n + 1,
                             Text(tree[n].depth, tree[n].len - k)),
                    [start |-> splitPosition(mark.start, n, k),
                     end   |-> splitPosition(mark.end, n, k)],
                    SavedElement)

\* the position p after Text node n + 1 was merged into Text node n
mergePosition(t, p, n) ==
  IF p.ref = n + 1 THEN Position(n, p.offset + t[n].len)
  ELSE shiftPosition(p, n + 1, -1)

\* two adjacent Text nodes become one (Node.normalize)
MergeText ==
  /\ Mutating
  /\ \E n \in Nodes(tree) :
       /\ n < Len(tree)
       /\ nodeType(tree, n) = 3
       /\ nodeType(tree, n + 1) = 3
       /\ tree[n + 1].depth = tree[n].depth
       /\ UnderSaved(n)
       /\ tree[n].len + tree[n + 1].len <= MaxMutLen
       /\ Mutated(RemoveAt([tree EXCEPT ![n].len = @ + tree[n + 1].len], n + 1),
                  [start |-> mergePosition(tree, mark.start, n),
                   end   |-> mergePosition(tree, mark.end, n)],
                  SavedElement)

\* a new leaf is inserted somewhere after the end boundary
InsertAfterEnd ==
  /\ Mutating
  /\ Len(tree) < MaxMutNodes
  /\ \E i \in (mark.end.ref + 1)..(Len(tree) + 1) :
       \E d \in 1..(tree[i - 1].depth + 1) :
         LET p == Max({j \in 1..(i - 1) : tree[j].depth < d})
         IN /\ canHaveChildren(tree, p)
            /\ nodeContains(tree, SavedElement, p)
            /\ i <= Len(tree) => tree[i].depth <= d
            /\ \E nd \in NewNodes(d) : Mutated(InsertAt(tree, i, nd), mark, SavedElement)

\* a leaf after the end boundary is removed
DeleteAfterEnd ==
  /\ Mutating
  /\ \E n \in (mark.end.ref + 1)..Len(tree) :
       /\ lastDescendant(tree, n) = n
       /\ UnderSaved(n)
       /\ Mutated(RemoveAt(tree, n), mark, SavedElement)

\* characters after the end boundary are inserted or deleted
EditTextAfterEnd ==
  /\ Mutating
  /\ \E n \in mark.end.ref..Len(tree) :
       /\ nodeType(tree, n) = 3
       /\ UnderSaved(n)
       /\ \E l \in 0..MaxMutLen :
            /\ l # tree[n].len
            /\ n = mark.end.ref => l >= mark.end.offset
            /\ Mutated([tree EXCEPT ![n].len = l], mark, SavedElement)

\* set(positions) of index.mjs on the captured positions
SetSaved ==
  /\ Mutating
  /\ sel' = set(tree, sel, saved, TRUE)
  /\ call' = [call EXCEPT !.op = "set"]
  /\ UNCHANGED <<tree, element_, positions_, hasContainsNode, saved, mark>>

\* restore(positions) of part_000 on the captured positions
RestoreSaved ==
  /\ Mutating
  /\ sel' = restore(tree, sel, saved)
  /\ call' = [call EXCEPT !.op = "restore"]
  /\ UNCHANGED <<tree, element_, positions_, hasContainsNode, saved, mark>>

InitMutate ==
  /\ tree \in MutateSeedTrees
  /\ sel = NoRange
  /\ element_ = 0
  /\ positions_ = NoPositions
  /\ hasContainsNode = TRUE
  /\ call = NoCall
  /\ saved = NoPositions
  /\ mark = NoPositions

NextMutate ==
  \/ UserSelectText \/ Save
  \/ WrapText \/ UnwrapText \/ SplitText \/ MergeText
  \/ InsertAfterEnd \/ DeleteAfterEnd \/ EditTextAfterEnd
  \/ SetSaved \/ RestoreSaved

SpecMutate == InitMutate /\ [][NextMutate]_vars

\* ------------------------- specification of the queries on the selection
QuerySeedTrees == {EmptyDoc, TwoParagraphs, BreakDoc}

Sections(t) == {n \in Nodes(t) : isSection(t, n)}

Elements(t) == {n \in Nodes(t) : nodeType(t, n) = 1}

\* setElement(element)
SetElement ==
  /\ call = NoCall
  /\ \E element \in Elements(tree) :
       /\ element # element_
       /\ element_' = element
       /\ call' = [NoCall EXCEPT !.op = "setElement", !.ref = element]
  /\ UNCHANGED <<tree, sel, positions_, hasContainsNode, saved, mark>>

\* isAtStartOfSection(section), with and without a section
IsAtStartOfSection ==
  /\ call = NoCall
  /\ sel # NoRange
  /\ \E section \in Sections(tree) \cup {0} :
       LET a == isAtStartOfSection(tree, sel, section)
       IN call' = [NoCall EXCEPT !.op = "isAtStartOfSection", !.root = section,
                                 !.res = a.res, !.err = a.err]
  /\ UNCHANGED <<tree, sel, element_, positions_, hasContainsNode, saved, mark>>

\* first arguments of get: nothing, booleans, a number, strings, elements
FirstArgs(t) ==
  {Undefined, Bool(TRUE), Bool(FALSE), Num, Str("start"), Str("end"), Str("middle"), Str("")}
    \cup {NodeArg(n) : n \in Elements(t)}

\* second arguments: the element after a caret, countAll after an element
SecondArgs(t, a1) ==
  IF a1.kind = "string"
  THEN {Undefined, Bool(TRUE)} \cup {NodeArg(n) : n \in Elements(t)}
  ELSE {Undefined, Bool(TRUE)}

ThirdArgs(a1) == IF a1.kind = "string" THEN {Undefined, Bool(TRUE)} ELSE {Undefined}

\* get(a1, a2, a3)
Get ==
  /\ call = NoCall
  /\ \E a1 \in FirstArgs(tree) :
       \E a2 \in SecondArgs(tree, a1), a3 \in ThirdArgs(a1) :
         LET g == getArgs(tree, sel, element_, a1, a2, a3)
         IN call' = [NoCall EXCEPT !.op = "get", !.args = <<a1, a2, a3>>,
                                   !.start = g.start, !.end = g.end, !.err = g.err]
  /\ UNCHANGED <<tree, sel, element_, positions_, hasContainsNode, saved, mark>>

\* contained({ element, sections: true }, partlyContained)
Contained ==
  /\ call = NoCall
  /\ sel # NoRange
  /\ \E element \in Elements(tree) \cup {0}, partly \in BOOLEAN :
       call' = [NoCall EXCEPT !.op = "contained", !.root = element, !.partly = partly,
                              !.nodes = contained(tree, sel, hasContainsNode, element_,
                                                  element, partly)]
  /\ UNCHANGED <<tree, sel, element_, positions_, hasContainsNode, saved, mark>>

InitQuery ==
  /\ tree \in QuerySeedTrees
  /\ sel = NoRange
  /\ element_ = 0
  /\ positions_ = NoPositions
  /\ hasContainsNode = TRUE
  /\ call = NoCall
  /\ saved = NoPositions
  /\ mark = NoPositions

NextQuery ==
  SetAppendChild \/ UserSelect \/ SetElement \/ IsAtStartOfSection \/ Get \/ Contained
    \/ Return

SpecQuery == InitQuery /\ [][NextQuery]_vars

\* ------------------------- specification of the cached Positions (part_000)
\* get(caret, element, countAll) of part_000 for caret "start" or "end":
\* when the element is the default element and Positions are cached, the
\* cached Position is returned; pos = NoPositions is an unset _positions
get_part000(t, r, el, pos, caret, element, countAll) ==
  LET e == IF element # 0 THEN element ELSE IF el # 0 THEN el ELSE body
  IN IF e = el /\ pos # NoPositions
     THEN (IF caret = "start" THEN pos.start ELSE pos.end)
     ELSE Position(e, offset(t, r, e, caret, countAll))

\* get() of part_000: both carets
getPositions_part000(t, r, el, pos) ==
  LET end == get_part000(t, r, el, pos, "end", 0, FALSE)
  IN [end |-> end,
      start |-> IF collapsed(r) THEN end ELSE get_part000(t, r, el, pos, "start", 0, FALSE)]

\* what update leaves in _positions; the argument is a Positions object,
\* false, or absent
UpdateArg(kind, positions) == [kind |-> kind, positions |-> positions]

Absent == UpdateArg("undefined", NoPositions)

False == UpdateArg("false", NoPositions)

update(t, r, el, pos, arg) ==
  IF arg.kind = "object" THEN arg.positions
  ELSE IF arg.kind # "false" THEN getPositions_part000(t, r, el, pos)
  ELSE pos

\* a selection was installed by set: the bounds check let both positions pass
installed(t, start, end) == ~outOfBounds(t, start) /\ ~outOfBounds(t, end)

CacheSeedTrees == {EmptyDoc, TwoParagraphs}

\* set(position, update) of part_000 for a caret; with the module's update
\* handed in, update() runs after the range is installed
CacheSet ==
  /\ call = NoCall
  /\ \E p \in RawPositions(tree), upd \in BOOLEAN :
       LET r == set_part000(tree, sel, [start |-> p, end |-> p])
       IN /\ sel' = r
          /\ positions_' = IF upd /\ installed(tree, p, p)
                            THEN update(tree, r, element_, positions_, Absent)
                            ELSE positions_
          /\ call' = [CalledWith("set_part000", p, p) EXCEPT !.res = upd]
  /\ UNCHANGED <<tree, element_, hasContainsNode, saved, mark>>

\* restore(position, update) of part_000 for a caret; with the module's
\* update handed in, update(positions) runs after set
CacheRestore ==
  /\ call = NoCall
  /\ \E p \in LinearPositions(tree), upd \in BOOLEAN :
       /\ sel' = restore(tree, sel, [start |-> p, end |-> p])
       /\ positions_' = IF upd
                         THEN update(tree, sel', element_, positions_,
                                     UpdateArg("object", [start |-> p, end |-> p]))
                         ELSE positions_
       /\ call' = [CalledWith("restore", p, p) EXCEPT !.res = upd]
  /\ UNCHANGED <<tree, element_, hasContainsNode, saved, mark>>

\* select(node) of part_000: set is handed the positions as they are
CacheSelect ==
  /\ call = NoCall
  /\ \E node \in Nodes(tree) :
       /\ sel' = set_part000(tree, sel, selectPositions(tree, node))
       /\ call' = [NoCall EXCEPT !.op = "select", !.ref = node]
  /\ UNCHANGED <<tree, element_, positions_, hasContainsNode, saved, mark>>

\* update() and update(false), called while there is a selection
Update ==
  /\ call = NoCall
  /\ sel # NoRange
  /\ \E arg \in {Absent, False} :
       /\ positions_' = update(tree, sel, element_, positions_, arg)
       /\ call' = [NoCall EXCEPT !.op = "update", !.res = (arg = Absent)]
  /\ UNCHANGED <<tree, sel, element_, hasContainsNode, saved, mark>>

\* get(caret) of part_000, without an element
GetCaret ==
  /\ call = NoCall
  /\ sel # NoRange
  /\ \E caret \in {"start", "end"} :
       call' = [NoCall EXCEPT !.op = "get_part000", !.args = <<Str(caret)>>,
                              !.pos = get_part000(tree, sel, element_, positions_,
                                                  caret, 0, FALSE)]
  /\ UNCHANGED <<tree, sel, element_, positions_, hasContainsNode, saved, mark>>

InitCache ==
  /\ tree \in CacheSeedTrees
  /\ sel = NoRange
  /\ element_ = 0
  /\ positions_ = NoPositions
  /\ hasContainsNode = TRUE
  /\ call = NoCall
  /\ saved = NoPositions
  /\ mark = NoPositions

NextCache ==
  SetAppendChild \/ SetElement \/ CacheSet \/ CacheRestore \/ CacheSelect \/ Update
    \/ GetCaret \/ Return

SpecCache == InitCache /\ [][NextCache]_vars

\* ------------------------------ specification of offset on a selection
\* paragraph "A" with a trailing line break
TrailingBreakDoc == <<Node("DIV", 0, 0), P(1), Text(2, 1), Br(2)>>

OffsetSeedTrees == {EmptyDoc, TwoParagraphs, TrailingBreakDoc, ListDoc}

\* the caret argument of offset: "" is an absent caret
Carets == {"", "start", "end"}

\* offset(element, caret, countAll), with and without an element
Offset ==
  /\ call = NoCall
  /\ sel # NoRange
  /\ \E element \in Elements(tree) \cup {0}, caret \in Carets, countAll \in BOOLEAN :
       LET n == offset(tree, sel, element, caret, countAll)
       IN call' = [NoCall EXCEPT !.op = "offset", !.root = element, !.args = <<Str(caret)>>,
                                 !.countAll = countAll,
                                 !.num = IF n = -1 THEN 0 ELSE n,
                                 !.err = IF n = -1 THEN "TypeError" ELSE ""]
  /\ UNCHANGED <<tree, sel, element_, positions_, hasContainsNode, saved, mark>>

\* isAtEndOfSection(section), with and without a section
IsAtEndOfSection ==
  /\ call = NoCall
  /\ sel # NoRange
  /\ \E section \in Sections(tree) \cup {0} :
       LET a == isAtEndOfSection(tree, sel, section)
       IN call' = [NoCall EXCEPT !.op = "isAtEndOfSection", !.root = section,
                                 !.res = a.res, !.err = a.err]
  /\ UNCHANGED <<tree, sel, element_, positions_, hasContainsNode, saved, mark>>

InitOffset ==
  /\ tree \in OffsetSeedTrees
  /\ sel = NoRange
  /\ element_ = 0
  /\ positions_ = NoPositions
  /\ hasContainsNode = TRUE
  /\ call = NoCall
  /\ saved = NoPositions
  /\ mark = NoPositions

NextOffset == HostAppendChild \/ UserSelect \/ Offset \/ IsAtEndOfSection \/ Return

SpecOffset == InitOffset /\ [][NextOffset]_vars

\* ----------------------- specification of get followed by set / restore
StableSeedTrees == {EmptyDoc, TwoParagraphs, TrailingBreakDoc, LineBreakDoc}

InitStable ==
  /\ tree \in StableSeedTrees
  /\ sel = NoRange
  /\ element_ = 0
  /\ positions_ = NoPositions
  /\ hasContainsNode = TRUE
  /\ call = NoCall
  /\ saved = NoPositions
  /\ mark = NoPositions

\* the caller captures the Positions of any selection and hands them back
\* at once, the document untouched
NextStable == HostAppendChild \/ UserSelect \/ Save \/ SetSaved \/ RestoreSaved

SpecStable == InitStable /\ [][NextStable]_vars

\* =================================================================
\* Properties of count and uncount (checked under SpecCount)
\* =================================================================
RootTotal(t, root, countAll) == count(t, root, 0, countAll)

\* the walk of the last uncount call ended on a BR (line-break conversion)
CallEndedOnBR ==
  nodeName(tree, uncountWalk(tree, call.root, call.off, call.countAll).ref) = "BR"

\* C1: round trip of count and uncount.  For every Element root, both modes
\* and every n in 0..count(root, none, countAll), the Position p returned by
\* uncount(root, n, countAll) satisfies count(root, p.ref, countAll) + p.offset = n
\* whenever the walk did not end on a BR.
C1_RoundTrip ==
  (call.op = "uncount" /\ ~CallEndedOnBR)
    => count(tree, call.root, call.pos.ref, call.countAll) + call.pos.offset = call.off

\* an uncount call that consumed text, steps and skipped nothing trivial:
\* offset n >= 2 resolved into a Text node below a section, in either mode
C1_Witness ==
  /\ call.op = "uncount"
  /\ ~CallEndedOnBR
  /\ call.off >= 2
  /\ nodeType(tree, call.pos.ref) = 3
  /\ call.pos.offset >= 1
  /\ \E n \in Nodes(tree) : nodeName(tree, n) = "BR"

\* C2: monotonicity of count in the default mode.  For nodes A before B in
\* document order below the same root, count(root, A) <= count(root, B).
C2_Monotone ==
  (call.op = "count" /\ ~call.countAll /\ call.ref # 0)
    => \A B \in (call.ref + 1)..lastDescendant(tree, call.root) :
         call.num <= count(tree, call.root, B, FALSE)

\* the nodes below root that the filtered walk visits
Visited(t, root) ==
  {n \in (root + 1)..lastDescendant(t, root) : filter(t, n) = FILTER_ACCEPT}

RECURSIVE SumVisitedText(_, _)
SumVisitedText(t, S) ==
  IF S = {} THEN 0
  ELSE LET n == CHOOSE x \in S : TRUE
       IN (IF nodeType(t, n) = 3 THEN t[n].len ELSE 0) + SumVisitedText(t, S \ {n})

\* C9: total length in default mode.  count(root, none, false) is the sum of
\* the lengths of the visited Text nodes plus one for each visited non-root
\* Section and each visited BR; for paragraph "AB" + paragraph "CD" it is 6.
C9_TotalLength ==
  (call.op = "count" /\ ~call.countAll /\ call.ref = 0)
    => /\ call.num = SumVisitedText(tree, Visited(tree, call.root))
                     + Cardinality({n \in Visited(tree, call.root) :
                                      isSection(tree, n) \/ nodeName(tree, n) = "BR"})
       /\ (tree = TwoParagraphs /\ call.root = 1) => call.num = 6

C9_Witness ==
  /\ tree = TwoParagraphs
  /\ call.op = "count" /\ ~call.countAll /\ call.ref = 0 /\ call.root = 1
  /\ call.num = 6

\* root's first child is a Section whose first child is a Text node
SectionTextFirst(t, root) ==
  /\ firstChild(t, root) # 0
  /\ isSection(t, firstChild(t, root))
  /\ firstChild(t, firstChild(t, root)) # 0
  /\ nodeType(t, firstChild(t, firstChild(t, root))) = 3

\* C10 as stated: uncount(root, 0) in default mode returns the Text node that
\* is the first child of root's first Section, at offset 0.
C10_AsStated ==
  (call.op = "uncount" /\ ~call.countAll /\ call.off = 0 /\ SectionTextFirst(tree, call.root))
    => call.pos = Position(firstChild(tree, firstChild(tree, call.root)), 0)

\* C10 (amended): for such a root, uncount(root, 0) returns root itself at
\* offset 0; the first Section's Text node at offset 0 is what uncount(root, 1)
\* returns.
C10_Offset0IsRoot ==
  (call.op = "uncount" /\ ~call.countAll /\ SectionTextFirst(tree, call.root))
    => /\ call.off = 0 => call.pos = Position(call.root, 0)
       /\ call.off = 1 => call.pos = Position(firstChild(tree, firstChild(tree, call.root)), 0)

C10_Witness ==
  /\ tree = TwoParagraphs
  /\ call.op = "uncount" /\ ~call.countAll /\ call.off = 0 /\ call.root = 1
  /\ call.pos = Position(1, 0)

\* =================================================================
\* Properties of set and restore (checked under SpecSet)
\* =================================================================
\* the offset of p exceeds the structural size of its ref
BeyondSize(t, p) == p.offset > nodeLength(t, p.ref)

IsSetCall(c) == c.op \in {"set", "set_part000"}

\* C4 as stated: set is a silent no-op when the start or the end Position
\* handed to the bounds check is beyond the structural size of its ref
\* (the selection is what it was), and otherwise the selection afterwards
\* is the single range from start to end.
C4_AsStated ==
  [][IsSetCall(call')
       => IF BeyondSize(tree, call'.start) \/ BeyondSize(tree, call'.end)
          THEN sel' = sel
          ELSE sel' = Range(call'.start, call'.end)]_vars

\* C4 (amended): out of bounds, the selection is what it was; within bounds,
\* it is the range from start to end when start is not after end in document
\* order, and the range collapsed at end when start is after end.
C4_SetBounds ==
  [][IsSetCall(call')
       => IF BeyondSize(tree, call'.start) \/ BeyondSize(tree, call'.end)
          THEN sel' = sel
          ELSE IF cmpBP(tree, call'.start, call'.end) <= 0
               THEN sel' = Range(call'.start, call'.end)
               ELSE sel' = Range(call'.end, call'.end)]_vars

\* a set call installed a range that spans two nodes
C4_Witness ==
  /\ IsSetCall(call)
  /\ sel # NoRange
  /\ sel.sc # sel.ec
  /\ nodeType(tree, sel.ec) = 3 /\ sel.eo = nodeLength(tree, sel.ec) /\ sel.eo > 0

\* =================================================================
\* Properties of contains (checked under SpecContains)
\* =================================================================
\* the whole span of node, from just before it to just after it, lies
\* between the boundaries of range r
WhollyInside(t, r, node) ==
  /\ parentNode(t, node) # 0
  /\ cmpBP(t, Position(parentNode(t, node), indexOf(t, node)), startOf(r)) >= 0
  /\ cmpBP(t, Position(parentNode(t, node), indexOf(t, node) + 1), endOf(r)) <= 0

FallbackCall == call.op = "contains" /\ ~hasContainsNode

\* C5: full containment in the fallback algorithm.  For every node whose
\* whole span lies between the selection's start and end, contains(node,
\* false) is true, with boundaries in Text or in Element containers.
C5_FullContainment ==
  (FallbackCall /\ ~call.partly /\ WhollyInside(tree, sel, call.ref)) => call.res

\* the boundary p lies in the interior of node
InsideNode(t, node, p) == nodeContains(t, node, p.ref)

\* node is an Element holding exactly one boundary of the non-collapsed range r
Straddles(t, r, node) ==
  /\ nodeType(t, node) = 1
  /\ ~collapsed(r)
  /\ InsideNode(t, node, startOf(r)) # InsideNode(t, node, endOf(r))

\* C6: straddling nodes in the fallback algorithm.  For an Element holding
\* exactly one boundary of a non-collapsed selection, contains(node, true)
\* is true and contains(node, false) is false.
C6_Straddling ==
  (FallbackCall /\ Straddles(tree, sel, call.ref)) => (call.res = call.partly)

\* C7: containsEvery(nodes, p) is the conjunction of contains(n, p) over
\* nodes and containsSome(nodes, p) the disjunction; for no nodes
\* containsEvery is true and containsSome is false.
C7_Quantifiers ==
  /\ call.op = "containsEvery" =>
       /\ call.res = (\A i \in 1..Len(call.nodes) :
                        contains(tree, sel, hasContainsNode, call.nodes[i], call.partly))
       /\ call.nodes = <<>> => call.res
  /\ call.op = "containsSome" =>
       /\ call.res = (\E i \in 1..Len(call.nodes) :
                        contains(tree, sel, hasContainsNode, call.nodes[i], call.partly))
       /\ call.nodes = <<>> => ~call.res

\* containsEvery over two nodes of which the first is contained and the
\* second is not
C7_Witness ==
  /\ call.op = "containsEvery"
  /\ Len(call.nodes) = 2
  /\ contains(tree, sel, hasContainsNode, call.nodes[1], call.partly)
  /\ ~contains(tree, sel, hasContainsNode, call.nodes[2], call.partly)
  /\ ~call.res

\* the Element the fallback measures from: the common ancestor of the
\* selection, or its parent when that is a Text node
AncestorElement(t, r) ==
  IF nodeType(t, commonAncestorContainer(t, r)) # 1
  THEN parentNode(t, commonAncestorContainer(t, r))
  ELSE commonAncestorContainer(t, r)

\* the flag contains works with: always true for a Text node
EffectivePartly == nodeType(tree, call.ref) = 3 \/ call.partly

\* the node of the last call is neither the ancestor Element nor below it
OutsideAncestor ==
  /\ call.ref # AncestorElement(tree, sel)
  /\ ~nodeContains(tree, AncestorElement(tree, sel), call.ref)

\* C22: contains fallback, node outside the common ancestor.  For a node
\* that is neither the selection's common-ancestor Element nor one of its
\* descendants, contains(node, p) is true exactly when the effective
\* partlyContained flag is true and node is an ancestor of that Element;
\* for a node disjoint from it the answer is false for both flags.
C22_OutsideAncestor ==
  (FallbackCall /\ OutsideAncestor) =>
    /\ call.res = (EffectivePartly /\ nodeContains(tree, call.ref, AncestorElement(tree, sel)))
    /\ ~nodeContains(tree, call.ref, AncestorElement(tree, sel)) => ~call.res

\* the selection lies in the second paragraph of a document and the
\* document element is asked for with partlyContained
C22_Witness ==
  /\ FallbackCall
  /\ OutsideAncestor
  /\ call.partly
  /\ call.res
  /\ call.ref = body
  /\ isSection(tree, AncestorElement(tree, sel))
  /\ previousSibling(tree, AncestorElement(tree, sel)) # 0

\* the linear offsets the fallback compares, all counted from the
\* ancestor Element with every node a step
RangeStartOffset == offset(tree, sel, AncestorElement(tree, sel), "start", TRUE)

RangeEndOffset == offset(tree, sel, AncestorElement(tree, sel), "end", TRUE)

NodeStartOffset == count(tree, AncestorElement(tree, sel), call.ref, TRUE)

NodeEndOffset ==
  IF nodeType(tree, call.ref) = 1
  THEN NodeStartOffset + count(tree, call.ref, 0, TRUE) + 1
  ELSE NodeStartOffset + textLength(tree, call.ref)

FullyContained == NodeStartOffset >= RangeStartOffset /\ NodeEndOffset <= RangeEndOffset

StrictlyInside(x) == NodeStartOffset < x /\ x < NodeEndOffset

\* C23: partial containment is strict in the fallback.  For a node that is
\* not fully contained, contains(node, true) is true only if the start or
\* the end linear offset of the selection lies strictly inside the node's
\* [start, end] offsets; a boundary equal to the node's start offset or to
\* its end offset does not make the node partly contained.
C23_StrictPartial ==
  (FallbackCall /\ ~OutsideAncestor /\ EffectivePartly /\ ~FullyContained /\ call.res)
    => (StrictlyInside(RangeStartOffset) \/ StrictlyInside(RangeEndOffset))

\* =================================================================
\* Properties of normalize (checked under SpecNormalize)
\* =================================================================
\* C8: normalize is idempotent.  After a normalize() that completed, a
\* second normalize() leaves the start and end of the host selection as
\* they are.
C8_Idempotent ==
  (call.op = "normalize" /\ call.err = "") => normalize(tree, sel, element_).sel = sel

\* the selection is not collapsed and ends at offset 0 of a Section
EndsAtSectionStart(t, r) ==
  r # NoRange /\ ~collapsed(r) /\ is(t, r.ec, sectionTags) /\ r.eo = 0

\* the nearest previous sibling of Section S, or of its first ancestor that
\* has one; 0 when there is none up to the top of the tree
SiblingBefore(t, S) ==
  IF climbToSibling(t, S) = 0 THEN 0 ELSE previousSibling(t, climbToSibling(t, S))

\* boundary b is at the end of the content of node X: in X or directly
\* after it, with no character of X after b
AtEndOfContent(t, b, X) ==
  /\ \/ nodeContains(t, X, b.ref)
     \/ b = Position(parentNode(t, X), indexOf(t, X) + 1)
  /\ \A n \in X..lastDescendant(t, X) :
       nodeType(t, n) = 3 => cmpBP(t, Position(n, t[n].len), b) <= 0

\* a step of normalize() on a selection that ends at offset 0 of a Section
\* with something before it
PullBackStep ==
  /\ call = NoCall
  /\ call'.op = "normalize"
  /\ EndsAtSectionStart(tree, sel)
  /\ SiblingBefore(tree, sel.ec) # 0

\* C24: normalize on a non-collapsed selection whose end boundary is at
\* offset 0 of a Section.  Afterwards the end boundary is at the end of the
\* content of the nearest previous sibling of that Section (or of its first
\* ancestor that has one) and no longer inside the Section, and the start
\* boundary has the linear offset it had relative to its enclosing Section.
C24_Step ==
  PullBackStep =>
    /\ AtEndOfContent(tree, endOf(sel'), SiblingBefore(tree, sel.ec))
    /\ ~nodeContains(tree, sel.ec, sel'.ec)
    /\ closest(tree, sel.sc, sectionTags) # 0 =>
         offset(tree, sel', closest(tree, sel.sc, sectionTags), "start", FALSE)
           = offset(tree, sel, closest(tree, sel.sc, sectionTags), "start", FALSE)

C24_EndPulledBack == [][C24_Step]_vars

\* a step of normalize() on a selection that ends at offset 0 of a Section
SectionStartStep ==
  /\ call = NoCall
  /\ call'.op = "normalize"
  /\ EndsAtSectionStart(tree, sel)

\* C28: normalize always completes without raising.  For every tree and
\* every non-collapsed selection whose end boundary is at offset 0 of a
\* Section, the upward walk for a node with a previous sibling ends on a
\* node of the tree, also when the Section and all of its ancestors up to
\* the top of the tree have no previous sibling.
C28_Step ==
  SectionStartStep => (climbToSibling(tree, sel.ec) # 0 /\ call'.err = "")

C28_Completes == [][C28_Step]_vars

\* =================================================================
\* Properties of saving and restoring (checked under SpecMutate)
\* =================================================================
Restored == call.op \in {"set", "restore"}

\* C3: save, mutate, restore.  Positions captured with get(E) while both
\* boundaries are in Text nodes under E, and restored after the tree under
\* E was restructured without touching what precedes the boundaries, give
\* a selection for which get(E) returns the captured offsets.
C3_SaveMutateRestore ==
  Restored =>
    /\ sel # NoRange
    /\ getPositions(tree, sel, element_, SavedElement, FALSE) = saved

\* the selected text of the first paragraph was wrapped in an inline
\* element after the capture, and the positions were restored with set
C3_Witness ==
  /\ call.op = "set"
  /\ \E n \in Nodes(tree) : nodeName(tree, n) = "SPAN" /\ nodeContains(tree, n, sel.ec)
  /\ saved.start.offset = 1
  /\ saved.end.offset = 3
  /\ sel = Range(mark.start, mark.end)

\* a step of set(p) or restore(p) for a single Position p whose ref is an
\* Element and whose offset is beyond count(ref)
OutOfRangeStep ==
  /\ call = NoCall
  /\ call'.op \in {"setLinear", "restore"}
  /\ call'.start = call'.end
  /\ nodeType(tree, call'.start.ref) = 1
  /\ call'.start.offset > count(tree, call'.start.ref, 0, FALSE)

\* C27: restoring an out-of-range linear offset never moves the selection.
\* For every Element ref and every n > count(ref, none, false),
\* restore({ref, offset: n}), and set({ref, offset: n}) of index.mjs, leaves
\* the host selection as it was.
C27_Step == OutOfRangeStep => sel' = sel

C27_OutOfRange == [][C27_Step]_vars

\* =================================================================
\* Properties of select (checked under SpecSet)
\* =================================================================
\* node is a Text node or has a Text node below it
HasText(t, node) == nodeType(t, node) = 3 \/ Len(textDescendants(t, node)) > 0

\* C11: select(node).  Without Text below a non-Text node the selection
\* becomes collapsed at (node, 0); otherwise it runs from offset 0 of the
\* first Text node to the end of the last Text node of node.
C11_Select ==
  call.op = "select" =>
    IF ~HasText(tree, call.ref)
    THEN sel = Range(Position(call.ref, 0), Position(call.ref, 0))
    ELSE sel = Range(selectPositions(tree, call.ref).start, selectPositions(tree, call.ref).end)

\* =================================================================
\* Properties of the queries on the selection (checked under SpecQuery)
\* =================================================================
\* the selection is collapsed at offset 0 of a Text node that is the first
\* child of section
CaretAtFirstText(t, r, section) ==
  /\ collapsed(r)
  /\ r.so = 0
  /\ nodeType(t, r.sc) = 3
  /\ firstChild(t, section) = r.sc

BreakBeforeList(t, root, b) ==
  /\ nodeName(t, b) = "BR"
  /\ b # root
  /\ nodeContains(t, root, b)
  /\ is(t, nextSibling(t, b), listTags)

\* C13: a BR whose next sibling is a list container contributes 0 in the
\* default mode.  count(root, ref) is what it is in the tree without that
\* BR, and the walk of uncount(root, n) ends where it ends without it.
C13_SkippedBreak ==
  \A b \in Nodes(tree) :
    (~call.countAll /\ call.root # 0 /\ BreakBeforeList(tree, call.root, b)) =>
      /\ call.op = "count" =>
           call.num = count(RemoveAt(tree, b), call.root, Shifted(call.ref, b + 1, -1), FALSE)
      /\ call.op = "uncount" =>
           shiftPosition(uncountWalk(tree, call.root, call.off, FALSE), b + 1, -1)
             = uncountWalk(RemoveAt(tree, b), call.root, call.off, FALSE)

\* a is the string "start" or the string "end"
IsCaret(a) == a.kind = "string" /\ a.str \in {"start", "end"}

\* C14 as stated: get raises the invalid-argument error for every first
\* argument that is neither a boolean nor "start" nor "end", and never for
\* "start" or "end".
C14_AsStated ==
  call.op = "get" =>
    /\ (call.args[1].kind \notin {"true", "false"} /\ ~IsCaret(call.args[1]))
         => call.err = "invalid-argument"
    /\ IsCaret(call.args[1]) => call.err # "invalid-argument"

\* C14: get raises the invalid-argument error exactly when its first
\* argument is a string other than "start" and "end"; a first argument that
\* is no string is taken for the element and never raises that error.
C14_InvalidArgument ==
  call.op = "get" =>
    (call.err = "invalid-argument") = (call.args[1].kind = "string" /\ ~IsCaret(call.args[1]))

\* get("middle", element) raised the error while a selection exists
C14_Witness ==
  /\ call.op = "get"
  /\ call.args[1] = Str("middle")
  /\ call.args[2].kind = "node"
  /\ sel # NoRange
  /\ call.err = "invalid-argument"

\* the element get counts from: the explicit one, else _element, else body
ScopeOf(a, el) == IF a.kind = "node" THEN a.node ELSE IF el # 0 THEN el ELSE body

\* get was called with an element or nothing for its first argument
GetBoth == call.op = "get" /\ call.args[1].kind \in {"undefined", "node"} /\ sel # NoRange

\* C15: get without a caret.  get(element, countAll) returns {start, end}
\* with end = get('end', element, countAll) and start the same Position as
\* end for a collapsed range, get('start', element, countAll) otherwise;
\* both have the same ref and are counted in the same mode.
C15_BothCarets ==
  GetBoth =>
    LET element  == call.args[1].node
        countAll == truthy(call.args[2])
        scope    == ScopeOf(call.args[1], element_)
    IN /\ call.err = ""
       /\ call.end = get(tree, sel, element_, "end", element, countAll)
       /\ call.start = IF collapsed(sel) THEN call.end
                       ELSE get(tree, sel, element_, "start", element, countAll)
       /\ call.start.ref = scope /\ call.end.ref = scope
       /\ call.end.offset = offset(tree, sel, scope, "end", countAll)
       /\ ~collapsed(sel) => call.start.offset = offset(tree, sel, scope, "start", countAll)

\* get(element, true) on a range that is not collapsed, with start and end
\* at different linear offsets
C15_Witness ==
  /\ GetBoth
  /\ call.args[1].kind = "node"
  /\ call.args[2] = Bool(TRUE)
  /\ ~collapsed(sel)
  /\ call.start.offset < call.end.offset

\* the element argument of a get call that counts from an element
ElementArg == IF call.args[1].kind = "string" THEN call.args[2] ELSE call.args[1]

\* a get call answered with linear offsets
GetLinear == call.op = "get" /\ call.err = "" /\ ElementArg.kind # "true"

\* the sections below e that the selection contains, in document order
ContainedSections(e, partly) ==
  SeqOfSet({n \in Sections(tree) :
              /\ n # e
              /\ nodeContains(tree, e, n)
              /\ contains(tree, sel, hasContainsNode, n, partly)})

\* get and contained answer from the explicit element when there is one,
\* from the default element otherwise
C16_Scope ==
  /\ GetLinear =>
       /\ ElementArg.kind = "node" =>
            (call.start.ref = ElementArg.node /\ call.end.ref = ElementArg.node)
       /\ (ElementArg.kind # "node" /\ element_ # 0) =>
            (call.start.ref = element_ /\ call.end.ref = element_)
  /\ call.op = "contained" =>
       /\ call.root # 0 => call.nodes = ContainedSections(call.root, call.partly)
       /\ (call.root = 0 /\ element_ # 0) =>
            call.nodes = ContainedSections(element_, call.partly)

\* setElement sets the default element and nothing else, and nothing else
\* sets it
C16_Step ==
  /\ (call' # call /\ call'.op = "setElement") =>
       (element_' = call'.ref /\ sel' = sel /\ tree' = tree)
  /\ element_' # element_ => (call' # call /\ call'.op = "setElement")

\* C16: default scoping element.  After setElement(E), get and contained
\* without an explicit element use E until setElement is called again, an
\* explicit element takes precedence, and setElement changes nothing else.
C16_DefaultElement == []C16_Scope /\ [][C16_Step]_vars

\* get("end") answered from a default element that is not document.body
C16_Witness ==
  /\ GetLinear
  /\ call.args[1] = Str("end")
  /\ call.args[2] = Undefined
  /\ element_ # 0 /\ element_ # body
  /\ call.end.ref = element_
  /\ call.end.offset > 0

\* the nodes below root, root left out
Below(t, root) == (root + 1)..lastDescendant(t, root)

FollowedByList(t, b) == is(t, nextSibling(t, b), listTags)

\* C17: BR acceptance in the default mode.  The filter rejects a BR only
\* when its next sibling is a list container; every other BR, a last child
\* included, is accepted and adds one step to count(root, none, false).
C17_BreakAcceptance ==
  /\ \A b \in Nodes(tree) :
       nodeName(tree, b) = "BR" => ((filter(tree, b) = FILTER_SKIP) = FollowedByList(tree, b))
  /\ (call.op = "count" /\ ~call.countAll /\ call.ref = 0) =>
       call.num = SumLen(tree, call.root, lastDescendant(tree, call.root))
                  + Cardinality({n \in Below(tree, call.root) : isSection(tree, n)})
                  + Cardinality({b \in Below(tree, call.root) :
                                   nodeName(tree, b) = "BR" /\ ~FollowedByList(tree, b)})

\* n lies below a list container that lies below root
InsideList(t, root, n) ==
  \E l \in Below(t, root) : is(t, l, listTags) /\ l < n /\ n <= lastDescendant(t, l)

\* what the nodes of S add to count: text lengths, and a step for each
\* Section and each BR
Contribution(t, S) ==
  SumVisitedText(t, S) + Cardinality({n \in S : isSection(t, n) \/ nodeName(t, n) = "BR"})

OutsideLists(t, root) == {n \in Visited(t, root) : ~InsideList(t, root, n)}

InsideLists(t, root) == {n \in Visited(t, root) : InsideList(t, root, n)}

DefaultTotal == call.op = "count" /\ ~call.countAll /\ call.ref = 0

DefaultUncount == call.op = "uncount" /\ ~call.countAll

\* C18 as stated: list containers are left out of the traversal.  What is
\* inside a list below root adds nothing to count(root, none, false) and is
\* never the ref of uncount(root, n, false).
C18_AsStated ==
  /\ DefaultTotal => call.num = Contribution(tree, OutsideLists(tree, call.root))
  /\ DefaultUncount => ~InsideList(tree, call.root, call.pos.ref)

\* C18: list containers are skipped, not cut off.  A UL/OL below root adds
\* no step and the walk of uncount never ends on it, but the nodes beneath
\* it are walked: list items and text inside a list add their steps and
\* lengths to count(root, none, false) as they do outside a list.
C18_ListsSkipped ==
  /\ DefaultTotal =>
       call.num = Contribution(tree, OutsideLists(tree, call.root))
                  + Contribution(tree, InsideLists(tree, call.root))
  /\ DefaultUncount =>
       LET ref == uncountWalk(tree, call.root, call.off, FALSE).ref
       IN ref = call.root \/ ~is(tree, ref, listTags)

\* uncount resolved an offset into a Text node inside a list
C18_Witness ==
  /\ DefaultUncount
  /\ nodeType(tree, call.pos.ref) = 3
  /\ InsideList(tree, call.root, call.pos.ref)
  /\ call.pos.offset >= 1

\* the position the walk of the last uncount call ended on
WalkEnd == uncountWalk(tree, call.root, call.off, call.countAll)

\* C19: uncount never returns a BR as ref.  When the walk ends on a BR the
\* result is the BR's parent with the BR's child index + 1, which is at most
\* the parent's child count; otherwise ref is root or a node other than a
\* BR that the walk accepted.
C19_NoBreakRef ==
  call.op = "uncount" =>
    /\ nodeName(tree, call.pos.ref) # "BR"
    /\ CallEndedOnBR =>
         /\ call.pos.ref = parentNode(tree, WalkEnd.ref)
         /\ call.pos.offset = indexOf(tree, WalkEnd.ref) + 1
         /\ call.pos.offset <= Len(childNodes(tree, call.pos.ref))
         /\ childNodes(tree, call.pos.ref)[call.pos.offset] = WalkEnd.ref
    /\ ~CallEndedOnBR =>
         /\ call.pos = WalkEnd
         /\ \/ call.pos.ref = call.root
            \/ /\ call.pos.ref \in Below(tree, call.root)
               /\ acceptNode(tree, call.pos.ref, call.countAll) = FILTER_ACCEPT

\* the walk ended on a BR below root that is not the first child of its parent
C19_Witness ==
  /\ call.op = "uncount"
  /\ CallEndedOnBR
  /\ WalkEnd.ref # call.root
  /\ call.pos.offset >= 2

\* C20: Positions produced by uncount respect the structural bound.  For
\* every Element root, both modes and every n in 0..count(root, none, mode),
\* the offset of uncount(root, n, mode) is at most the child count of an
\* Element ref and at most the text length of a Text ref, so the bounds
\* check of set accepts it.
C20_WithinBounds ==
  (call.op = "uncount" /\ call.off <= RootTotal(tree, call.root, call.countAll)) =>
    /\ nodeType(tree, call.pos.ref) = 1 => call.pos.offset <= Len(childNodes(tree, call.pos.ref))
    /\ nodeType(tree, call.pos.ref) = 3 => call.pos.offset <= tree[call.pos.ref].len
    /\ ~outOfBounds(tree, call.pos)

\* the whole of root was spent and the walk ended at the end of a second
\* Text node
C20_Witness ==
  /\ call.op = "uncount"
  /\ call.off = RootTotal(tree, call.root, call.countAll)
  /\ nodeType(tree, call.pos.ref) = 3
  /\ call.pos.offset = tree[call.pos.ref].len
  /\ call.pos.offset >= 1
  /\ \E n \in Below(tree, call.root) : n < call.pos.ref /\ nodeType(tree, n) = 3 /\ tree[n].len >= 1

\* =================================================================
\* Properties of offset (checked under SpecOffset)
\* =================================================================
\* the caret named in the last offset call
CalledCaret == call.args[1].str

\* the container and the local offset of the boundary the call reads
CalledContainer == IF CalledCaret = "start" THEN sel.sc ELSE sel.ec

CalledLocalOffset == IF CalledCaret = "start" THEN sel.so ELSE sel.eo

\* the element the call counts from
CalledElement ==
  IF call.root # 0 THEN call.root ELSE closest(tree, CalledContainer, sectionTags)

StartOffsetCall ==
  /\ call.op = "offset"
  /\ CalledCaret = "start"
  /\ call.root # 0
  /\ nodeContains(tree, call.root, sel.sc)
  /\ nodeContains(tree, call.root, sel.ec)

\* C25: the start never exceeds the end in linear offsets.  For every
\* range of the host, every element that holds both boundaries and both
\* modes, offset(element, 'start', mode) <= offset(element, 'end', mode),
\* and get(element, mode) returns start.offset <= end.offset.
C25_StartBeforeEnd ==
  StartOffsetCall =>
    /\ call.num <= offset(tree, sel, call.root, "end", call.countAll)
    /\ LET ps == getPositions(tree, sel, element_, call.root, call.countAll)
       IN ps.start.offset <= ps.end.offset

\* the last call was offset(S, 'end') in default mode for a Section S that
\* is or holds the end container
SectionEndCall ==
  /\ call.op = "offset"
  /\ CalledCaret # "start"
  /\ ~call.countAll
  /\ call.root # 0
  /\ isSection(tree, call.root)
  /\ nodeContains(tree, call.root, sel.ec)

\* the caret stands at the structural end of Section S: after the last
\* child of S, S having no nested list
AtStructuralEnd(t, r, S) ==
  /\ collapsed(r)
  /\ r.ec = S
  /\ r.eo = Len(childNodes(t, S))
  /\ Len(children(t, S, listTags)) = 0

\* C26: a caret offset never exceeds the section's total.  For every
\* Section S and every selection whose end boundary is S or inside S,
\* 0 <= offset(S, 'end') <= count(S) in default mode; and a caret at the
\* structural end of S makes isAtEndOfSection(S) true.
C26_WithinSection ==
  /\ SectionEndCall => (0 <= call.num /\ call.num <= count(tree, call.root, 0, FALSE))
  /\ (call.op = "isAtEndOfSection" /\ call.root # 0 /\ AtStructuralEnd(tree, sel, call.root))
       => call.res

\* =================================================================
\* Properties of the cached Positions (checked under SpecCache)
\* =================================================================
\* the current default element, document.body when none was set
DefaultElement == IF element_ # 0 THEN element_ ELSE body

\* the Positions of the host selection as it is now
CurrentPositions == getPositions(tree, sel, element_, 0, FALSE)

\* C29: get never returns a stale position.  After any sequence of
\* setElement, update, set, restore and select calls, get(caret) without an
\* element returns {ref: E, offset: offset(E, caret)} for the selection as
\* it is at the time of the call, E being the current default element; and
\* update() without an argument leaves the cached Positions equal to those
\* of the current selection.
C29_NoStalePosition ==
  /\ call.op = "get_part000" =>
       call.pos = Position(DefaultElement,
                           offset(tree, sel, DefaultElement, call.args[1].str, FALSE))
  /\ (call.op = "update" /\ call.res) => positions_ = CurrentPositions

\* =================================================================
\* Properties of get followed by set / restore (checked under SpecStable)
\* =================================================================
\* the boundaries set and restore resolve the captured Positions to
SavedStart == uncount(tree, saved.start.ref, saved.start.offset, FALSE)

SavedEnd == uncount(tree, saved.end.ref, saved.end.offset, FALSE)

\* C30: get then restore on an unmodified tree is stable.  For every tree,
\* element E and selection inside E with boundaries in Text or Element
\* containers, the Positions P = get(E) of default mode handed back at once
\* to set (restore in part_000) are installed, the bounds check letting them
\* pass, and get(E) afterwards returns the offsets of P.
C30_GetRestoreStable ==
  Restored =>
    /\ ~outOfBounds(tree, SavedStart)
    /\ ~outOfBounds(tree, SavedEnd)
    /\ sel = newRange(tree, SavedStart, SavedEnd)
    /\ getPositions(tree, sel, element_, SavedElement, FALSE).start.offset = saved.start.offset
    /\ getPositions(tree, sel, element_, SavedElement, FALSE).end.offset = saved.end.offset

====
